---- MODULE Spec2Model ----
(***************************************************************************)
(* A model of launchpad-tools: the tree / relational synchronisation       *)
(* engine (getDB, getRoot, walkGroup, applyRoot, verifyRoot in db.ts), the  *)
(* compact codec (toTinyRoot, tinyToRoot in tiny.ts) and the AI correction *)
(* loop (getLayoutResult in ai.ts, Operations.layoutWithAI).               *)
(*                                                                         *)
(* Encoding of the TypeScript values:                                      *)
(*   - a tree node is a record: App [kind, id, bundle_id, name],           *)
(*     Page [kind, id, children], Folder [kind, id, name, children];       *)
(*   - a table of the store is a function from the row identity (rowid /   *)
(*     item_id) to the remaining columns;                                  *)
(*   - SQL NULL in an integer column is NULL (-1), in a text column        *)
(*     NoTitle;                                                            *)
(*   - a TinyItem (string | [string, string[]]) is a record tagged by t.   *)
(***************************************************************************)
EXTENDS Integers, Sequences, FiniteSets, TLC

VARIABLES
    items,        \* table items:  rowid -> [uuid, flags, type, parent_id, ordering]
    groups,       \* table groups: item_id -> [category_id, title]
    apps,         \* table apps:   item_id -> [title, bundleid]
    imageCaches,  \* table image_cache: item_id -> [image_data]
    trigger,      \* dbinfo.value of key ignore_items_update_triggers
    pc,           \* position of the running program
    root,         \* the tree handed to applyRoot (the walker assigns ids in place)
    ap,           \* locals of applyRoot
    err,          \* the error that ended the run, or NoErr
    pre,          \* the store as it was when applyRoot was called
    restarted,    \* restartLaunchpad() has run
    ai,           \* locals of getLayoutResult
    vin,          \* the arguments of a direct verifyRoot call
    vout          \* its outcome

vars == <<items, groups, apps, imageCaches, trigger, pc, root, ap, err, pre,
          restarted, ai, vin, vout>>

storeVars == <<items, groups, apps, imageCaches, trigger>>

-----------------------------------------------------------------------------
(* Bounds of the model *)

\* longest list of apps in a candidate tree or a reference list
MaxApps == 3

-----------------------------------------------------------------------------
(* Values *)

NULL == -1

NoTitle == "<null>"

NoErr == [kind |-> "none"]

ItemType_RootFolder == 1
ItemType_Folder == 2
ItemType_Page == 3
ItemType_App == 4

\* app names the text-generation collaborator or a caller may write
Names == {"A", "B", "X"}

Max(S) == CHOOSE x \in S : \A y \in S : y <= x

RECURSIVE SeqsOfLen(_, _)
SeqsOfLen(S, n) ==
    IF n = 0 THEN {<<>>}
    ELSE {Append(s, x) : s \in SeqsOfLen(S, n - 1), x \in S}

SeqsUpTo(S, n) == UNION {SeqsOfLen(S, k) : k \in 0..n}

Range(s) == {s[i] : i \in 1..Len(s)}

RECURSIVE Flat(_)
\* Array.prototype.flat / concatenation of a sequence of sequences
Flat(ss) == IF ss = <<>> THEN <<>> ELSE Head(ss) \o Flat(Tail(ss))

-----------------------------------------------------------------------------
(* Trees *)

App(id, name) == [kind |-> "app", id |-> id, bundle_id |-> name, name |-> name]

Page(id, children) == [kind |-> "page", id |-> id, children |-> children]

Folder(id, name, children) ==
    [kind |-> "folder", id |-> id, name |-> name, children |-> children]

RootFolder(children) == Folder(1, "root", children)

itemIsGroup(item) == item.kind = "folder" \/ item.kind = "page"

RECURSIVE collectSeq(_)
\* the apps met by walkGroup over the children `cs`, in visiting order
collectSeq(cs) ==
    IF cs = <<>> THEN <<>>
    ELSE LET item == Head(cs)
             here == IF item.kind = "app" THEN <<item>> ELSE <<>>
             below == IF itemIsGroup(item) THEN collectSeq(item.children) ELSE <<>>
         IN  here \o below \o collectSeq(Tail(cs))

collectApps(group) == collectSeq(group.children)

AppNames(appSeq) == [i \in 1..Len(appSeq) |-> appSeq[i].name]

-----------------------------------------------------------------------------
(* verifyRoot *)

RECURSIVE Dedup(_)
\* the elements of a sequence in the order a JS Set keeps them (first insertion)
Dedup(s) ==
    IF s = <<>> THEN <<>>
    ELSE LET d == Dedup(SubSeq(s, 1, Len(s) - 1))
             x == s[Len(s)]
         IN  IF x \in Range(d) THEN d ELSE Append(d, x)

\* every occurrence of the name removed
RemoveFirst_Every(s, x) == SelectSeq(s, LAMBDA y : y # x)

RECURSIVE RemoveFirst(_, _)
\* newAppNames.splice(newAppNames.indexOf(app), 1)
RemoveFirst(s, x) ==
    IF s = <<>> THEN <<>>
    ELSE IF Head(s) = x THEN Tail(s)
    ELSE <<Head(s)>> \o RemoveFirst(Tail(s), x)

RECURSIVE RemoveFirsts(_, _)
RemoveFirsts(s, xs) ==
    IF xs = <<>> THEN s ELSE RemoveFirsts(RemoveFirst(s, Head(xs)), Tail(xs))

\* Set.prototype.difference, keeping the insertion order of the receiver
Difference(a, b) == SelectSeq(a, LAMBDA x : x \notin Range(b))

\* the test of the second check: oldApps.length !== newApps.length
SizeDiffers(oldNames, newNames) == Len(oldNames) # Len(newNames)

\* the outcome of verifyRoot(oldApps, root): Ok, or the VerifyError thrown
verifyRoot(oldApps, tree) ==
    LET newApps == collectApps(tree)
        newAppNames == AppNames(newApps)
        newAppSet == Dedup(newAppNames)
        oldAppSet == Dedup(AppNames(oldApps))
    IN  IF Len(newApps) # Len(newAppSet)
        THEN [kind |-> "VerifyError", check |-> "Duplicate",
              names |-> RemoveFirsts(newAppNames, newAppSet),
              unexpected |-> <<>>, missing |-> <<>>]
        ELSE IF SizeDiffers(AppNames(oldApps), newAppNames)
        THEN [kind |-> "VerifyError", check |-> "SetMismatch",
              names |-> <<>>,
              unexpected |-> Difference(newAppSet, oldAppSet),
              missing |-> Difference(oldAppSet, newAppSet)]
        ELSE NoErr

-----------------------------------------------------------------------------
(* The store and its snapshot *)

Store == [items |-> items, groups |-> groups, apps |-> apps,
          imageCaches |-> imageCaches, trigger |-> trigger]

ItemRow(uuid, flags, type, parent_id, ordering) ==
    [uuid |-> uuid, flags |-> flags, type |-> type, parent_id |-> parent_id,
     ordering |-> ordering]

GroupRow(title) == [category_id |-> NULL, title |-> title]

AppRow(title) == [title |-> title, bundleid |-> title]

\* a uuid the store already held / one made by randomUUID()
OldUuid(n) == [gen |-> FALSE, n |-> n]
NewUuid(n) == [gen |-> TRUE, n |-> n]

\* one page holding the apps A and B
StoreFlat ==
    [items |-> (1 :> ItemRow(OldUuid(1), NULL, ItemType_RootFolder, 0, 0)) @@
               (2 :> ItemRow(OldUuid(2), NULL, ItemType_Page, 1, 0)) @@
               (3 :> ItemRow(OldUuid(3), 0, ItemType_Page, 1, 1)) @@
               (4 :> ItemRow(OldUuid(4), 0, ItemType_App, 3, 0)) @@
               (5 :> ItemRow(OldUuid(5), 0, ItemType_App, 3, 1)),
     groups |-> (1 :> GroupRow("root")) @@ (2 :> GroupRow(NoTitle)) @@
                (3 :> GroupRow(NoTitle)),
     apps |-> (4 :> AppRow("A")) @@ (5 :> AppRow("B")),
     imageCaches |-> (4 :> [image_data |-> "iconA"]) @@ (5 :> [image_data |-> "iconB"]),
     trigger |-> 0]

\* app A beside a folder F holding app B, and a housekeeping row (type tag 7)
StoreFolder ==
    [items |-> (1 :> ItemRow(OldUuid(1), NULL, ItemType_RootFolder, 0, 0)) @@
               (2 :> ItemRow(OldUuid(2), NULL, ItemType_Page, 1, 0)) @@
               (3 :> ItemRow(OldUuid(3), 0, ItemType_Page, 1, 1)) @@
               (4 :> ItemRow(OldUuid(4), 0, ItemType_App, 3, 0)) @@
               (5 :> ItemRow(OldUuid(5), 0, ItemType_Folder, 3, 1)) @@
               (6 :> ItemRow(OldUuid(6), 0, ItemType_Page, 5, 0)) @@
               (7 :> ItemRow(OldUuid(7), 0, ItemType_App, 6, 0)) @@
               (8 :> ItemRow(OldUuid(8), 0, 7, 3, 2)),
     groups |-> (1 :> GroupRow("root")) @@ (2 :> GroupRow(NoTitle)) @@
                (3 :> GroupRow(NoTitle)) @@ (5 :> GroupRow("F")) @@
                (6 :> GroupRow(NoTitle)),
     apps |-> (4 :> AppRow("A")) @@ (7 :> AppRow("B")),
     imageCaches |-> (4 :> [image_data |-> "iconA"]) @@ (7 :> [image_data |-> "iconB"]),
     trigger |-> 0]

InitStores == {StoreFlat, StoreFolder}

\* Math.max(...items.filter(i => typeof i.flags !== 'number').map(i => i.rowid));
\* with no such row Math.max() is -Infinity, which every comparison below treats
\* as any value under the smallest rowid (1) does
lastSystemItemId(its) ==
    LET sys == {r \in DOMAIN its : its[r].flags = NULL}
    IN  IF sys = {} THEN 0 ELSE Max(sys)

getDB(store) ==
    [items |-> store.items, groups |-> store.groups, apps |-> store.apps,
     imageCaches |-> store.imageCaches,
     lastSystemItemId |-> lastSystemItemId(store.items)]

RECURSIVE SortRows_ByRowid(_, _)
\* the rows left in the order of the select, with no sort
SortRows_ByRowid(its, rows) ==
    IF rows = {} THEN <<>>
    ELSE LET m == CHOOSE r \in rows : \A q \in rows : r <= q
         IN  <<m>> \o SortRows_ByRowid(its, rows \ {m})

RECURSIVE SortRows(_, _)
\* rows (a set of rowids) by ascending ordering; Array.prototype.sort is stable and
\* `select *` lists a rowid table by ascending rowid
SortRows(its, rows) ==
    IF rows = {} THEN <<>>
    ELSE LET m == CHOOSE r \in rows : \A q \in rows :
                      \/ its[r].ordering < its[q].ordering
                      \/ its[r].ordering = its[q].ordering /\ r <= q
         IN  <<m>> \o SortRows(its, rows \ {m})

IsError(v) == v.kind = "Error"

RECURSIVE itemToGroup(_, _, _)
\* the node built for row `rowid`, or the Error thrown while building it; `fuel`
\* bounds the descent (a store whose parent links loop overflows the stack)
itemToGroup(db, rowid, fuel) ==
    IF fuel = 0 THEN [kind |-> "Error", msg |-> "stack overflow"]
    ELSE IF rowid \notin DOMAIN db.groups
    THEN [kind |-> "Error", msg |-> "no such group"]
    ELSE
    LET item == db.items[rowid]
        rows == SortRows(db.items,
                         {r \in DOMAIN db.items : db.items[r].parent_id = rowid})
        built == [i \in 1..Len(rows) |->
                    LET r == rows[i]
                        t == db.items[r].type
                    IN  IF r <= db.lastSystemItemId THEN [kind |-> "null"]
                        ELSE IF t = ItemType_Page \/ t = ItemType_Folder
                        THEN itemToGroup(db, r, fuel - 1)
                        ELSE IF t = ItemType_App
                        THEN IF r \in DOMAIN db.apps
                             THEN App(r, db.apps[r].title)
                             ELSE [kind |-> "Error", msg |-> "app is undefined"]
                        ELSE [kind |-> "null"]]
        children == SelectSeq(built, LAMBDA c : c.kind # "null")
        failed == {i \in 1..Len(built) : IsError(built[i])}
    IN  IF failed # {} THEN built[CHOOSE i \in failed : \A j \in failed : i <= j]
        ELSE IF item.type = ItemType_RootFolder \/ item.type = ItemType_Folder
        THEN Folder(rowid, db.groups[rowid].title, children)
        ELSE IF item.type = ItemType_Page
        THEN Page(rowid, children)
        ELSE IF item.type = ItemType_App
        THEN IF rowid \in DOMAIN db.apps
             THEN App(rowid, db.apps[rowid].title)
             ELSE [kind |-> "Error", msg |-> "app is undefined"]
        ELSE [kind |-> "Error", msg |-> "unknown item type"]

getRoot(db) ==
    IF 1 \notin DOMAIN db.items
    THEN [kind |-> "Error", msg |-> "item is undefined"]
    ELSE itemToGroup(db, 1, Cardinality(DOMAIN db.items) + 1)

-----------------------------------------------------------------------------
(* applyRoot: the walk that computes the write set *)

\* every created row typed as a page
TypeOfKind_Page(kind) == ItemType_Page

TypeOfKind(kind) ==
    IF kind = "app" THEN ItemType_App
    ELSE IF kind = "folder" THEN ItemType_Folder
    ELSE ItemType_Page

TitleOf(item) == IF item.kind = "folder" THEN item.name ELSE NoTitle

\* if (item.id >= 1 && item.id <= lastSystemItemId) return;
SkipsNode(id, last) == id >= 1 /\ id <= last

\* item.id = item.id === 0 ? nextId++ : item.id
CreatedId(id, nextId) == IF id = 0 THEN nextId ELSE id

\* The walker of applyRoot on one node. st holds the locals the closure captures:
\* nextId, the snapshot rows itemMap / groupMap (updated in place), updateItems and
\* updateGroups (an entry is a reference to a snapshot row or a new row), the
\* number of uuids drawn, and the error thrown so far. Yields the node (its id
\* assigned) and the locals.
walker(item, parentId, index, st, last) ==
    IF SkipsNode(item.id, last) THEN [item |-> item, st |-> st]
    ELSE
    LET ordering == IF parentId = 1 THEN index + 1 ELSE index
    IN  IF item.id \in DOMAIN st.itemMap
        THEN LET moved == [st EXCEPT
                             !.itemMap[item.id].parent_id = parentId,
                             !.itemMap[item.id].ordering = ordering,
                             !.updateItems = Append(@, [ref |-> TRUE, rowid |-> item.id])]
             IN  IF ~itemIsGroup(item) THEN [item |-> item, st |-> moved]
                 ELSE IF item.id \notin DOMAIN st.groupMap
                 THEN [item |-> item,
                       st |-> [moved EXCEPT !.err =
                                 [kind |-> "Error", msg |-> "dbGroup is undefined"]]]
                 ELSE [item |-> item,
                       st |-> [moved EXCEPT
                                 !.groupMap[item.id].title = TitleOf(item),
                                 !.updateGroups =
                                     Append(@, [ref |-> TRUE, item_id |-> item.id])]]
        ELSE LET id == CreatedId(item.id, st.nextId)
                 made == [st EXCEPT
                            !.nextId = IF item.id = 0 THEN @ + 1 ELSE @,
                            !.uuids = @ + 1,
                            !.updateItems = Append(@,
                                [ref |-> FALSE, rowid |-> id,
                                 row |-> ItemRow(NewUuid(st.uuids + 1), 0,
                                                 TypeOfKind(item.kind), parentId,
                                                 ordering)])]
             IN  [item |-> [item EXCEPT !.id = id],
                  st |-> IF itemIsGroup(item)
                         THEN [made EXCEPT !.updateGroups = Append(@,
                                   [ref |-> FALSE, item_id |-> id,
                                    row |-> GroupRow(TitleOf(item))])]
                         ELSE made]

RECURSIVE walkGroup(_, _, _, _, _)
RECURSIVE walkInto(_, _, _, _, _)
RECURSIVE walkOn(_, _, _, _, _, _)

\* walkGroup over the children cs of the node whose id is parentId, from child i
\* on: the walker runs on a child (walkInto) before the walk descends into it, so
\* the children of a created group see the id just assigned to it; then the loop
\* goes on with the next child (walkOn)
walkGroup(cs, i, parentId, st, last) ==
    IF i > Len(cs) \/ st.err # NoErr THEN [children |-> cs, st |-> st]
    ELSE walkInto(cs, i, parentId, walker(cs[i], parentId, i - 1, st, last), last)

walkInto(cs, i, parentId, w, last) ==
    walkOn(cs, i, parentId, w.item,
           IF itemIsGroup(w.item)
           THEN walkGroup(w.item.children, 1, w.item.id, w.st, last)
           ELSE [children |-> <<>>, st |-> w.st],
           last)

walkOn(cs, i, parentId, item, below, last) ==
    walkGroup([cs EXCEPT ![i] = IF itemIsGroup(item)
                                THEN [item EXCEPT !.children = below.children]
                                ELSE item],
              i + 1, parentId, below.st, last)

\* let nextId = Math.max(...oldItems.map(item => item.rowid)) + 1;
FirstNextId(db) == Max(DOMAIN db.items) + 1

\* the walk of applyRoot over the whole tree, from the snapshot db
ApplyWalk(db, tree) ==
    walkGroup(tree.children, 1, tree.id,
              [nextId |-> FirstNextId(db), itemMap |-> db.items,
               groupMap |-> db.groups, updateItems |-> <<>>, updateGroups |-> <<>>,
               uuids |-> 0, err |-> NoErr],
              db.lastSystemItemId)

\* the row an entry of updateItems / updateGroups stands for when it is written
ItemOf(e) == IF e.ref THEN ap.itemMap[e.rowid] ELSE e.row
GroupOf(e) == IF e.ref THEN ap.groupMap[e.item_id] ELSE e.row

-----------------------------------------------------------------------------
(* The trees a caller hands to applyRoot *)

\* the app nodes a tree may hold: the apps of the store's own tree (ids kept, as
\* deepClone and the tree operations keep them) and an app the store does not know
AppChoices(store) ==
    Range(collectApps(getRoot(getDB(store)))) \cup {App(0, "X")}

ManagedGroupIds(store) ==
    {r \in DOMAIN store.items :
        /\ r > lastSystemItemId(store.items)
        /\ store.items[r].type \in {ItemType_Page, ItemType_Folder}}

\* the ids a page or folder node may carry: unassigned, the system boundary, a
\* managed group row, and an id the store does not hold
GroupIdChoices(store) ==
    {0, lastSystemItemId(store.items), Max(DOMAIN store.items) + 1}
        \cup ManagedGroupIds(store)

\* the ids the page inside a folder may carry
InnerIdChoices(store) ==
    {0} \cup {r \in ManagedGroupIds(store) :
                 store.items[r].parent_id \in ManagedGroupIds(store)}

Modes == {"flat", "page", "folder"}

\* cand laid out: on one page; on two pages cut after `cut` apps; or on one page
\* with the apps after `cut` in a folder
MkPages(cand, cut, mode, pid, gid, ipid) ==
    LET first == SubSeq(cand, 1, cut)
        rest == SubSeq(cand, cut + 1, Len(cand))
    IN  IF mode = "flat" THEN <<Page(pid, cand)>>
        ELSE IF mode = "page" THEN <<Page(pid, first), Page(gid, rest)>>
        ELSE <<Page(pid, Append(first, Folder(gid, "G", <<Page(ipid, rest)>>)))>>

\* the candidate app lists of a tree: every list of at most MaxApps app nodes
Candidates(store) == SeqsUpTo(AppChoices(store), MaxApps)

-----------------------------------------------------------------------------
(* applyRoot, statement by statement *)

ApIdle == [i |-> 0]

AiIdle == [retry |-> 0]

\* the range written one too wide
ManagedRow_FromBoundary(rowid, last) == rowid >= last

\* where rowid > ${lastSystemItemId}
ManagedRow(rowid, last) == rowid > last

Restrict(f, S) == [x \in S |-> f[x]]

RECURSIVE SortedIds(_)
\* the identities of a table in the order `select *` lists them
SortedIds(S) ==
    IF S = {} THEN <<>>
    ELSE LET m == CHOOSE x \in S : \A y \in S : x <= y
         IN  <<m>> \o SortedIds(S \ {m})

Throw(e) ==
    /\ pc' = "failed"
    /\ err' = e

\* verification left out, as in the applyRoot that had no verifier
CheckedTree_Unverified(db, tree) == NoErr

\* verifyRoot(collectApps(currentRoot), root): the VerifyError thrown, or NoErr
CheckedTree(db, tree) == verifyRoot(collectApps(getRoot(db)), tree)

\* applyRoot up to its first statement on the store, given the snapshot, the
\* tree built from it, the verifier's outcome and the outcome of the walk
ApplyPrepared(db, currentRoot, v, w) ==
    IF IsError(currentRoot)
    THEN Throw(currentRoot) /\ UNCHANGED <<root, ap>>
    ELSE IF v # NoErr
    THEN Throw(v) /\ UNCHANGED <<root, ap>>
    ELSE IF w.st.err # NoErr
    THEN Throw(w.st.err) /\ UNCHANGED <<root, ap>>
    ELSE /\ pc' = "delete_items"
         /\ err' = NoErr
         /\ root' = [root EXCEPT !.children = w.children]
         /\ ap' = [lastSystemItemId |-> db.lastSystemItemId,
                   itemMap |-> w.st.itemMap,
                   groupMap |-> w.st.groupMap,
                   apps |-> db.apps,
                   imageCaches |-> db.imageCaches,
                   updateItems |-> w.st.updateItems,
                   updateGroups |-> w.st.updateGroups,
                   i |-> 0]

\* getDB, getRoot, verifyRoot and the walk (db.ts 217-274): nothing is written yet
ApplyBegin ==
    /\ pc = "applyRoot"
    /\ pre' = Store
    /\ UNCHANGED <<storeVars, restarted, ai, vin, vout>>
    /\ ApplyPrepared(getDB(Store), getRoot(getDB(Store)),
                     CheckedTree(getDB(Store), root),
                     ApplyWalk(getDB(Store), root))

\* delete from items where rowid > lastSystemItemId
DeleteItems ==
    /\ pc = "delete_items"
    /\ items' = Restrict(items, {r \in DOMAIN items :
                                    ~ManagedRow(r, ap.lastSystemItemId)})
    /\ pc' = "set_trigger"
    /\ UNCHANGED <<groups, apps, imageCaches, trigger, root, ap, err, pre,
                   restarted, ai, vin, vout>>

\* UPDATE dbinfo SET value=1 WHERE key='ignore_items_update_triggers'
SetTrigger ==
    /\ pc = "set_trigger"
    /\ trigger' = 1
    /\ pc' = "insert_items"
    /\ ap' = [ap EXCEPT !.i = 1]
    /\ UNCHANGED <<items, groups, apps, imageCaches, root, err, pre, restarted,
                   ai, vin, vout>>

\* one turn of `for (const item of updateItems)`: a row within the system boundary
\* is passed over; a rowid the table already holds fails the insert
InsertItem ==
    /\ pc = "insert_items"
    /\ ap.i <= Len(ap.updateItems)
    /\ LET e == ap.updateItems[ap.i]
       IN  IF e.rowid <= ap.lastSystemItemId
           THEN /\ ap' = [ap EXCEPT !.i = @ + 1]
                /\ UNCHANGED <<items, pc, err>>
           ELSE IF e.rowid \in DOMAIN items
           THEN /\ Throw([kind |-> "Error", msg |-> "UNIQUE constraint failed"])
                /\ UNCHANGED <<items, ap>>
           ELSE /\ items' = items @@ (e.rowid :> ItemOf(e))
                /\ ap' = [ap EXCEPT !.i = @ + 1]
                /\ UNCHANGED <<pc, err>>
    /\ UNCHANGED <<groups, apps, imageCaches, trigger, root, pre, restarted,
                   ai, vin, vout>>

\* UPDATE dbinfo SET value = 0 WHERE key='ignore_items_update_triggers'
ClearTrigger ==
    /\ pc = "insert_items"
    /\ ap.i > Len(ap.updateItems)
    /\ trigger' = 0
    /\ pc' = "delete_groups"
    /\ UNCHANGED <<items, groups, apps, imageCaches, root, ap, err, pre,
                   restarted, ai, vin, vout>>

\* delete from groups where item_id > lastSystemItemId
DeleteGroups ==
    /\ pc = "delete_groups"
    /\ groups' = Restrict(groups, {r \in DOMAIN groups :
                                      ~ManagedRow(r, ap.lastSystemItemId)})
    /\ pc' = "insert_groups"
    /\ ap' = [ap EXCEPT !.i = 1]
    /\ UNCHANGED <<items, apps, imageCaches, trigger, root, err, pre, restarted,
                   ai, vin, vout>>

\* one turn of `for (const group of updateGroups)`
InsertGroup ==
    /\ pc = "insert_groups"
    /\ ap.i <= Len(ap.updateGroups)
    /\ LET e == ap.updateGroups[ap.i]
       IN  IF e.item_id <= ap.lastSystemItemId
           THEN /\ ap' = [ap EXCEPT !.i = @ + 1]
                /\ UNCHANGED <<groups, pc, err>>
           ELSE IF e.item_id \in DOMAIN groups
           THEN /\ Throw([kind |-> "Error", msg |-> "UNIQUE constraint failed"])
                /\ UNCHANGED <<groups, ap>>
           ELSE /\ groups' = groups @@ (e.item_id :> GroupOf(e))
                /\ ap' = [ap EXCEPT !.i = @ + 1]
                /\ UNCHANGED <<pc, err>>
    /\ UNCHANGED <<items, apps, imageCaches, trigger, root, pre, restarted,
                   ai, vin, vout>>

\* delete from apps
DeleteApps ==
    /\ pc = "insert_groups"
    /\ ap.i > Len(ap.updateGroups)
    /\ apps' = Restrict(apps, {})
    /\ pc' = "insert_apps"
    /\ ap' = [ap EXCEPT !.i = 1]
    /\ UNCHANGED <<items, groups, imageCaches, trigger, root, err, pre,
                   restarted, ai, vin, vout>>

\* one turn of `for (const app of apps)`: the snapshot's rows, verbatim
InsertApp ==
    /\ pc = "insert_apps"
    /\ ap.i <= Cardinality(DOMAIN ap.apps)
    /\ LET id == SortedIds(DOMAIN ap.apps)[ap.i]
       IN  apps' = apps @@ (id :> ap.apps[id])
    /\ ap' = [ap EXCEPT !.i = @ + 1]
    /\ UNCHANGED <<items, groups, imageCaches, trigger, pc, root, err, pre,
                   restarted, ai, vin, vout>>

\* delete from image_cache
DeleteImageCache ==
    /\ pc = "insert_apps"
    /\ ap.i > Cardinality(DOMAIN ap.apps)
    /\ imageCaches' = Restrict(imageCaches, {})
    /\ pc' = "insert_image_cache"
    /\ ap' = [ap EXCEPT !.i = 1]
    /\ UNCHANGED <<items, groups, apps, trigger, root, err, pre, restarted,
                   ai, vin, vout>>

\* one turn of `for (const imageCache of imageCaches)`
InsertImageCache ==
    /\ pc = "insert_image_cache"
    /\ ap.i <= Cardinality(DOMAIN ap.imageCaches)
    /\ LET id == SortedIds(DOMAIN ap.imageCaches)[ap.i]
       IN  imageCaches' = imageCaches @@ (id :> ap.imageCaches[id])
    /\ ap' = [ap EXCEPT !.i = @ + 1]
    /\ UNCHANGED <<items, groups, apps, trigger, pc, root, err, pre, restarted,
                   ai, vin, vout>>

\* applyRoot returns to main
ApplyReturn ==
    /\ pc = "insert_image_cache"
    /\ ap.i > Cardinality(DOMAIN ap.imageCaches)
    /\ pc' = "restartLaunchpad"
    /\ UNCHANGED <<storeVars, root, ap, err, pre, restarted, ai, vin, vout>>

\* restartLaunchpad()
RestartLaunchpad ==
    /\ pc = "restartLaunchpad"
    /\ restarted' = TRUE
    /\ pc' = "done"
    /\ UNCHANGED <<storeVars, root, ap, err, pre, ai, vin, vout>>

WritePcs == {"delete_items", "set_trigger", "insert_items", "delete_groups",
             "insert_groups", "insert_apps", "insert_image_cache"}

\* The statement about to run on the store throws (the store is locked by the
\* running Dock, an I/O error): it changes nothing and the exception leaves
\* applyRoot. Every statement has been committed on its own; nothing is undone.
StoreFault ==
    /\ pc \in WritePcs
    /\ Throw([kind |-> "Error", msg |-> "store fault"])
    /\ UNCHANGED <<storeVars, root, ap, pre, restarted, ai, vin, vout>>

ApplyNext ==
    \/ ApplyBegin
    \/ DeleteItems
    \/ SetTrigger
    \/ InsertItem
    \/ ClearTrigger
    \/ DeleteGroups
    \/ InsertGroup
    \/ DeleteApps
    \/ InsertApp
    \/ DeleteImageCache
    \/ InsertImageCache
    \/ ApplyReturn
    \/ StoreFault

-----------------------------------------------------------------------------
(* The compact codec (tiny.ts) *)

TinyApp(name) == [t |-> "app", name |-> name]

TinyFolder(name, names) == [t |-> "folder", name |-> name, apps |-> names]

\* Array.isArray(item)
isTinyFolder(item) == item.t = "folder"

\* the folder encoded with its name and none of its apps
toTinyFolder_NameOnly(folder) == TinyFolder(folder.name, <<>>)

\* [name, the app names of every page of the folder, .flat()]
toTinyFolder(folder) ==
    TinyFolder(folder.name,
               Flat([i \in 1..Len(folder.children) |->
                       AppNames(folder.children[i].children)]))

toTinyPage(page) ==
    [i \in 1..Len(page.children) |->
        IF page.children[i].kind = "app"
        THEN TinyApp(page.children[i].name)
        ELSE toTinyFolder(page.children[i])]

toTinyRoot(tree) == [i \in 1..Len(tree.children) |-> toTinyPage(tree.children[i])]

\* an unknown name answered with a new app node instead of the assertion
LookupApp_Invented(appSeq, name) ==
    LET hits == {i \in 1..Len(appSeq) : appSeq[i].name = name}
    IN  IF hits = {} THEN App(0, name) ELSE appSeq[Max(hits)]

\* appByName[name] with appByName = associateWith(apps, 'name') (the last app of
\* a name wins), then assert(Boolean(app), `app ${name} not found`)
LookupApp(appSeq, name) ==
    LET hits == {i \in 1..Len(appSeq) : appSeq[i].name = name}
    IN  IF hits = {}
        THEN [kind |-> "Error", msg |-> "app not found", name |-> name]
        ELSE appSeq[Max(hits)]

FirstError(nodes) ==
    LET bad == {i \in 1..Len(nodes) : IsError(nodes[i])}
    IN  IF bad = {} THEN NoErr
        ELSE nodes[CHOOSE i \in bad : \A j \in bad : i <= j]

\* one item of a tiny page decoded: an app of the index, or a folder with one page
DecodeItem(appSeq, item) ==
    IF isTinyFolder(item)
    THEN LET found == [k \in 1..Len(item.apps) |-> LookupApp(appSeq, item.apps[k])]
         IN  IF FirstError(found) # NoErr THEN FirstError(found)
             ELSE Folder(0, item.name, <<Page(0, found)>>)
    ELSE LookupApp(appSeq, item.name)

DecodePage(appSeq, page) ==
    LET found == [k \in 1..Len(page) |-> DecodeItem(appSeq, page[k])]
    IN  IF FirstError(found) # NoErr THEN FirstError(found) ELSE Page(0, found)

\* the tree of a TinyRoot, or the Error of the first name the index lacks
tinyToRoot(appSeq, tiny) ==
    LET pages == [k \in 1..Len(tiny) |-> DecodePage(appSeq, tiny[k])]
    IN  IF FirstError(pages) # NoErr THEN FirstError(pages) ELSE RootFolder(pages)

-----------------------------------------------------------------------------
(* getLayoutResult (ai.ts) and Operations.layoutWithAI *)

\* for (let retry = 0; retry < 3; retry++)
RetryLimit == 3

NullRoot == [kind |-> "null"]

\* a TinyRoot laid out like MkPages
MkTiny(names, cut, mode) ==
    LET all == [k \in 1..Len(names) |-> TinyApp(names[k])]
        first == SubSeq(all, 1, cut)
        rest == SubSeq(names, cut + 1, Len(names))
    IN  IF mode = "flat" THEN <<all>>
        ELSE IF mode = "page"
        THEN <<first, SubSeq(all, cut + 1, Len(all))>>
        ELSE <<Append(first, TinyFolder("G", rest))>>

\* The text of a response: what JSON.parse makes of its body ("invalid": not JSON;
\* "other": JSON that is no TinyRoot; "tiny": a TinyRoot), and whether it came
\* wrapped in a code fence.
Reply(fence, json, value) == [fence |-> fence, json |-> json, value |-> value]

\* the lists of names a response may hold: no longer than the reference app list
ReplyNames(refApps) == SeqsUpTo(Names, Len(refApps))

\* result.trim(); if (result.startsWith('```')) result = result.replace(/```(json)?/g, '').trim()
StripFence(text) == [text EXCEPT !.fence = FALSE]

\* the outcome of the try block, given the decoded tree and the verifier's outcome
TryOutcome(result, newRoot, v) ==
    IF result.fence \/ result.json = "invalid"
    THEN [kind |-> "SyntaxError"]
    ELSE IF result.json = "other"
    THEN [kind |-> "Error", msg |-> "TypeError", name |-> ""]
    ELSE IF IsError(newRoot) THEN newRoot
    ELSE IF v # NoErr THEN v
    ELSE newRoot

\* verifyRoot(apps, newRoot), reached only with a decoded tree
VerifyDecoded(refApps, newRoot) ==
    IF IsError(newRoot) THEN NoErr ELSE verifyRoot(refApps, newRoot)

TryDecoded(result, refApps, newRoot) ==
    TryOutcome(result, newRoot, VerifyDecoded(refApps, newRoot))

\* the try block of one attempt: the tree returned, or the error thrown
\* (SyntaxError by JSON.parse, TypeError / Error by tinyToRoot, VerifyError)
TryDecode(refRoot, result) ==
    TryDecoded(result, collectApps(refRoot),
               tinyToRoot(collectApps(refRoot), result.value))

Message(role, content) == [role |-> role, content |-> content]

\* main calls layoutWithAI: getRoot(db), then getLayoutResult encodes the tree once
\* and opens the conversation with the system prompt and the user's instruction
MainLayoutWithAI ==
    /\ pc = "main"
    /\ LET refRoot == getRoot(getDB(Store))
       IN  ai' = [root |-> refRoot, retry |-> 0, requests |-> 0,
                  messages |-> <<Message("system", [input |-> toTinyRoot(refRoot)]),
                                 Message("user", [input |-> <<>>])>>,
                  newRoot |-> NullRoot, failures |-> 0]
    /\ pc' = "getLayoutResult"
    /\ UNCHANGED <<storeVars, root, ap, err, pre, restarted, vin, vout>>

\* what an attempt does with the error of its try block: a SyntaxError and a
\* VerifyError are answered with a corrective message; any other error is rethrown
Recoverable(e) == e.kind = "SyntaxError" \/ e.kind = "VerifyError"

\* the conversation opened again from its first two messages
PushCorrective_Restart(messages, result, out) ==
    <<messages[1], messages[2], Message("assistant", result), Message("user", out)>>

\* messages.push({role: 'assistant', content: result}), then in the catch
\* messages.push({role: 'user', content: ...}) with the text for the error
PushCorrective(messages, result, out) ==
    messages \o <<Message("assistant", result), Message("user", out)>>

\* what one turn of the loop does with the stripped response and the outcome of
\* its try block
AfterTry(result, out) ==
    IF out.kind = "folder"
    THEN /\ ai' = [retry |-> ai.retry, requests |-> ai.requests + 1,
                   newRoot |-> out, failures |-> ai.failures]
         /\ pc' = "layoutWithAI"
         /\ err' = err
    ELSE IF Recoverable(out)
    THEN /\ ai' = [ai EXCEPT
                     !.retry = @ + 1,
                     !.requests = @ + 1,
                     !.failures = @ + 1,
                     !.messages = PushCorrective(@, result, out)]
         /\ pc' = "getLayoutResult"
         /\ err' = err
    ELSE /\ ai' = [retry |-> ai.retry, requests |-> ai.requests + 1,
                   newRoot |-> NullRoot, failures |-> ai.failures + 1]
         /\ Throw(out)

Attempt(text) == AfterTry(StripFence(text), TryDecode(ai.root, StripFence(text)))

\* One turn of the loop: the request, the streamed response, the try block. The
\* collaborator answers with text that is no JSON, JSON of another shape, or a
\* TinyRoot over some list of names.
AiAttempt ==
    /\ pc = "getLayoutResult"
    /\ ai.retry < RetryLimit
    /\ \E fence \in BOOLEAN :
          \/ \E json \in {"invalid", "other"} : Attempt(Reply(fence, json, <<>>))
          \/ \E names \in ReplyNames(collectApps(ai.root)), mode \in Modes :
                \E cut \in 0..Len(names) :
                    Attempt(Reply(fence, "tiny", MkTiny(names, cut, mode)))
    /\ UNCHANGED <<storeVars, root, ap, pre, restarted, vin, vout>>

\* the loop has run out: return null
AiExhausted ==
    /\ pc = "getLayoutResult"
    /\ ai.retry >= RetryLimit
    /\ ai' = [retry |-> ai.retry, requests |-> ai.requests, newRoot |-> NullRoot,
              failures |-> ai.failures]
    /\ pc' = "layoutWithAI"
    /\ UNCHANGED <<storeVars, root, ap, err, pre, restarted, vin, vout>>

\* a null result answered with the unchanged tree of the store
AfterLayout_Fallback(newRoot) ==
    IF newRoot = NullRoot
    THEN /\ root' = getRoot(getDB(Store))
         /\ pc' = "applyRoot"
         /\ err' = err
    ELSE /\ root' = newRoot
         /\ pc' = "applyRoot"
         /\ err' = err

\* assert(Boolean(newRoot)); the tree then goes on to applyRoot
AfterLayout(newRoot) ==
    IF newRoot = NullRoot
    THEN /\ Throw([kind |-> "Error", msg |-> "assert"])
         /\ root' = root
    ELSE /\ root' = newRoot
         /\ pc' = "applyRoot"
         /\ err' = err

\* layoutWithAI after the await, and main's call of applyRoot on its result
LayoutWithAIReturn ==
    /\ pc = "layoutWithAI"
    /\ AfterLayout(ai.newRoot)
    /\ UNCHANGED <<storeVars, ap, pre, restarted, ai, vin, vout>>

-----------------------------------------------------------------------------
(* main: a tree is computed from the store's tree and applied *)

\* const db = getDB(); const root = getRoot(db); ... applyRoot(newRoot)
MainApplyRoot ==
    /\ pc = "main"
    /\ \E cand \in Candidates(Store), mode \in Modes,
          pid \in GroupIdChoices(Store), gid \in GroupIdChoices(Store),
          ipid \in InnerIdChoices(Store) :
            \E cut \in 0..Len(cand) :
                root' = RootFolder(MkPages(cand, cut, mode, pid, gid, ipid))
    /\ pc' = "applyRoot"
    /\ UNCHANGED <<storeVars, ap, err, pre, restarted, ai, vin, vout>>

Init ==
    /\ \E s \in InitStores :
        /\ items = s.items
        /\ groups = s.groups
        /\ apps = s.apps
        /\ imageCaches = s.imageCaches
        /\ trigger = s.trigger
        /\ pre = s
    /\ pc = "main"
    /\ root = RootFolder(<<>>)
    /\ ap = ApIdle
    /\ err = NoErr
    /\ restarted = FALSE
    /\ ai = AiIdle
    /\ vin = <<>>
    /\ vout = NoErr

Next ==
    \/ MainApplyRoot
    \/ MainLayoutWithAI
    \/ AiAttempt
    \/ AiExhausted
    \/ LayoutWithAIReturn
    \/ ApplyNext
    \/ RestartLaunchpad

Spec == Init /\ [][Next]_vars

-----------------------------------------------------------------------------
(* A direct call of verifyRoot *)

\* the apps a reference list or a candidate tree is made of
VerifyApps == {App(4, "A"), App(5, "B"), App(0, "X")}

VerifyInit ==
    /\ \E oldApps \in SeqsUpTo(VerifyApps, MaxApps),
          cand \in SeqsUpTo(VerifyApps, MaxApps), mode \in Modes :
            \E cut \in 0..Len(cand) :
                vin = [oldApps |-> oldApps,
                       root |-> RootFolder(MkPages(cand, cut, mode, 0, 0, 0))]
    /\ vout = NoErr
    /\ pc = "verifyRoot"
    /\ items = StoreFlat.items
    /\ groups = StoreFlat.groups
    /\ apps = StoreFlat.apps
    /\ imageCaches = StoreFlat.imageCaches
    /\ trigger = StoreFlat.trigger
    /\ pre = StoreFlat
    /\ root = RootFolder(<<>>)
    /\ ap = ApIdle
    /\ err = NoErr
    /\ restarted = FALSE
    /\ ai = AiIdle

VerifyRootCall ==
    /\ pc = "verifyRoot"
    /\ vout' = verifyRoot(vin.oldApps, vin.root)
    /\ pc' = "verified"
    /\ UNCHANGED <<storeVars, root, ap, err, pre, restarted, ai, vin>>

VerifyNext == VerifyRootCall

SpecVerify == VerifyInit /\ [][VerifyNext]_vars

-----------------------------------------------------------------------------
(* The compact codec called directly: toTinyRoot, then tinyToRoot *)

CodecModes == Modes \cup {"folder2"}

\* like MkPages, and for "folder2" a folder of two pages cut after `cut2` apps
MkCodecPages(cand, cut, cut2, mode) ==
    IF mode = "folder2"
    THEN <<Page(0, Append(SubSeq(cand, 1, cut),
                          Folder(0, "G", <<Page(0, SubSeq(cand, cut + 1, cut2)),
                                           Page(0, SubSeq(cand, cut2 + 1, Len(cand)))>>)))>>
    ELSE MkPages(cand, cut, mode, 0, 0, 0)

CodecInit ==
    /\ \E cand \in SeqsUpTo(VerifyApps, MaxApps), mode \in CodecModes :
          \E cut \in 0..Len(cand) :
              \E cut2 \in cut..Len(cand) :
                  vin = [root |-> RootFolder(MkCodecPages(cand, cut, cut2, mode))]
    /\ vout = NoErr
    /\ pc = "toTinyRoot"
    /\ items = StoreFlat.items
    /\ groups = StoreFlat.groups
    /\ apps = StoreFlat.apps
    /\ imageCaches = StoreFlat.imageCaches
    /\ trigger = StoreFlat.trigger
    /\ pre = StoreFlat
    /\ root = RootFolder(<<>>)
    /\ ap = ApIdle
    /\ err = NoErr
    /\ restarted = FALSE
    /\ ai = AiIdle

ToTinyRootCall ==
    /\ pc = "toTinyRoot"
    /\ vout' = [tiny |-> toTinyRoot(vin.root)]
    /\ pc' = "tinyToRoot"
    /\ UNCHANGED <<storeVars, root, ap, err, pre, restarted, ai, vin>>

TinyToRootCall ==
    /\ pc = "tinyToRoot"
    /\ vout' = [tiny |-> vout.tiny,
                root |-> tinyToRoot(collectApps(vin.root), vout.tiny)]
    /\ pc' = "decoded"
    /\ UNCHANGED <<storeVars, root, ap, err, pre, restarted, ai, vin>>

CodecNext == ToTinyRootCall \/ TinyToRootCall

SpecCodec == CodecInit /\ [][CodecNext]_vars

-----------------------------------------------------------------------------
(* Operations (operations.ts), on the tree type it is written for: every page *)
(* and folder is a node of kind 'group', a page having the name null          *)

Group(id, name, children) ==
    [kind |-> "group", id |-> id, name |-> name, children |-> children]

\* the apps a tree handed to Operations is made of; two of them share a title,
\* and "Han" stands for a title written in Han characters
OpsApps == {App(4, "B"), App(5, "A"), App(6, "A"), App(7, "Han")}

RECURSIVE getAppsSeq_TopLevel(_)
\* the walk without its descent into groups below a page
getAppsSeq_TopLevel(cs) ==
    IF cs = <<>> THEN <<>>
    ELSE (IF Head(cs).kind = "group"
          THEN SelectSeq(Head(cs).children, LAMBDA c : c.kind = "app")
          ELSE <<>>)
         \o getAppsSeq_TopLevel(Tail(cs))

RECURSIVE getAppsSeq(_)
\* walkGroup(group, item => { if (item.kind === 'app') apps.push(item) }): the
\* walker is called on each child, then the walk descends into a 'group' child
getAppsSeq(cs) ==
    IF cs = <<>> THEN <<>>
    ELSE LET item == Head(cs)
             here == IF item.kind = "app" THEN <<item>> ELSE <<>>
             below == IF item.kind = "group" THEN getAppsSeq(item.children) ELSE <<>>
         IN  here \o below \o getAppsSeq(Tail(cs))

\* Operations.getApps(): collectApps(this.root)
getApps(tree) == getAppsSeq(tree.children)

\* Operations.flatted()
flatted(tree) == Group(1, NoTitle, <<Group(0, NoTitle, getApps(tree))>>)

\* pinyin(name).map(p => p[0]).join(''): Han characters are replaced by their
\* first reading (with its tone mark), any other text is kept
PinyinKey(name) == IF name = "Han" THEN "ai" ELSE name

\* the place of a key in the order of < on strings (by UTF-16 code unit): the
\* empty string first, capitals before the reading, which starts with U+00E0
StrRank(key) ==
    CASE key = "" -> 0
      [] key = "A" -> 1
      [] key = "B" -> 2
      [] key = "G" -> 3
      [] key = "ai" -> 4

\* item.name ?? ''
NameOrEmpty(item) == IF item.name = NoTitle THEN "" ELSE item.name

\* the comparators: "pinyin" is the one defined inside sorted(); "idDesc" is a
\* comparator of a caller, (a, b) => b.id - a.id; "none" is no argument
SortKeys == {"none", "idDesc"}

\* a comparator under which every item goes before every other
Compare_AlwaysBefore(key, a, b) == -1

Compare(key, a, b) ==
    IF key = "idDesc" THEN b.id - a.id
    ELSE LET nameA == StrRank(PinyinKey(NameOrEmpty(a)))
             nameB == StrRank(PinyinKey(NameOrEmpty(b)))
         IN  IF nameA < nameB THEN -1 ELSE IF nameA > nameB THEN 1 ELSE 0

\* x put into the sorted sequence s before the first item it goes before
InsertSorted(key, s, x) ==
    LET after == {i \in 1..Len(s) : Compare(key, x, s[i]) < 0}
        at == IF after = {} THEN Len(s) + 1
              ELSE CHOOSE i \in after : \A j \in after : i <= j
    IN  SubSeq(s, 1, at - 1) \o <<x>> \o SubSeq(s, at, Len(s))

RECURSIVE ArraySort(_, _)
\* Array.prototype.sort(key): a stable sort
ArraySort(key, s) ==
    IF s = <<>> THEN <<>>
    ELSE InsertSorted(key, ArraySort(key, SubSeq(s, 1, Len(s) - 1)), s[Len(s)])

RECURSIVE SortChildren(_, _)
\* children.sort(key), then the same in every group among them
SortChildren(key, cs) ==
    LET s == ArraySort(key, cs)
    IN  [i \in 1..Len(s) |->
            IF s[i].kind = "group"
            THEN Group(s[i].id, s[i].name, SortChildren(key, s[i].children))
            ELSE s[i]]

\* key = (a, b) => { ... }: the first statement of sorted() assigns the pinyin
\* comparator to the parameter, whatever was passed
KeyUsed(key) == "pinyin"

\* Operations.sorted(key?)
sorted(tree, key) == Group(tree.id, tree.name, SortChildren(KeyUsed(key), tree.children))

\* the values of a key function: two strings that are canonical array indices
\* and one that is not
Keys == {"1", "2", "k"}

\* a key function, by the app it is applied to
Groupers == [{a.id : a \in OpsApps} -> Keys]

GroupTypes == {"page", "folder"}

IsIndexKey(k) == k \in {"1", "2"}

IndexValue(k) == IF k = "1" THEN 1 ELSE 2

\* the array indices among Keys
IndexValues == {IndexValue(k) : k \in {q \in Keys : IsIndexKey(q)}}

\* the item replaces what the bucket held
GroupByAdd_Replace(obj, k, item) ==
    IF \E i \in 1..Len(obj) : obj[i].key = k
    THEN [i \in 1..Len(obj) |->
            IF obj[i].key = k THEN [key |-> k, items |-> <<item>>] ELSE obj[i]]
    ELSE Append(obj, [key |-> k, items |-> <<item>>])

\* if (obj[k]) obj[k].push(item) else obj[k] = [item]; the object is
\* kept as its properties in the order of their creation
GroupByAdd(obj, k, item) ==
    IF \E i \in 1..Len(obj) : obj[i].key = k
    THEN [i \in 1..Len(obj) |->
            IF obj[i].key = k
            THEN [key |-> k, items |-> Append(obj[i].items, item)]
            ELSE obj[i]]
    ELSE Append(obj, [key |-> k, items |-> <<item>>])

RECURSIVE groupBy(_)
\* utils.groupBy(arr, '1') over the pairs [app, key]
groupBy(arr) ==
    IF arr = <<>> THEN <<>>
    ELSE LET item == arr[Len(arr)]
         IN  GroupByAdd(groupBy(SubSeq(arr, 1, Len(arr) - 1)), item.key, item)

\* Object.entries(obj): the properties whose name is an array index first, in
\* ascending numeric order, then the others in the order of their creation
ObjectEntries(obj) ==
    Flat([v \in 1..Max(IndexValues) |->
            SelectSeq(obj, LAMBDA e : IsIndexKey(e.key) /\ IndexValue(e.key) = v)])
        \o SelectSeq(obj, LAMBDA e : ~IsIndexKey(e.key))

\* Operations.groupedBy(grouper, groupType)
groupedBy(tree, grouper, groupType) ==
    LET apps_ == getApps(tree)
        grouped == groupBy([i \in 1..Len(apps_) |->
                              [app |-> apps_[i], key |-> grouper[apps_[i].id]]])
        entries == ObjectEntries(grouped)
        made == [i \in 1..Len(entries) |->
                    Group(0, entries[i].key,
                          [j \in 1..Len(entries[i].items) |-> entries[i].items[j].app])]
    IN  Group(1, NoTitle,
              IF groupType = "folder" THEN <<Group(0, NoTitle, made)>> ELSE made)

OpsModes == Modes \cup {"none"}

\* cand laid out as MkPages lays it out, in 'group' nodes; "none": no page at all
MkGroups(cand, cut, mode) ==
    LET first == SubSeq(cand, 1, cut)
        rest == SubSeq(cand, cut + 1, Len(cand))
    IN  IF mode = "none" THEN <<>>
        ELSE IF mode = "flat" THEN <<Group(3, NoTitle, cand)>>
        ELSE IF mode = "page"
        THEN <<Group(3, NoTitle, first), Group(8, NoTitle, rest)>>
        ELSE <<Group(3, NoTitle,
                     Append(first, Group(8, "G", <<Group(9, NoTitle, rest)>>)))>>

OpsInit ==
    /\ \E cand \in SeqsUpTo(OpsApps, MaxApps), mode \in OpsModes :
          \E cut \in 0..Len(cand) :
              vin = [root |-> Group(1, NoTitle, MkGroups(cand, cut, mode))]
    /\ vout = NoErr
    /\ pc = "Operations"
    /\ items = StoreFlat.items
    /\ groups = StoreFlat.groups
    /\ apps = StoreFlat.apps
    /\ imageCaches = StoreFlat.imageCaches
    /\ trigger = StoreFlat.trigger
    /\ pre = StoreFlat
    /\ root = RootFolder(<<>>)
    /\ ap = ApIdle
    /\ err = NoErr
    /\ restarted = FALSE
    /\ ai = AiIdle

FlattedCall ==
    /\ pc = "Operations"
    /\ vout' = [op |-> "flatted", root |-> flatted(vin.root)]
    /\ pc' = "flatted"
    /\ UNCHANGED <<storeVars, root, ap, err, pre, restarted, ai, vin>>

SortedCall ==
    /\ pc = "Operations"
    /\ \E key \in SortKeys :
          vout' = [op |-> "sorted", key |-> key, root |-> sorted(vin.root, key)]
    /\ pc' = "sorted"
    /\ UNCHANGED <<storeVars, root, ap, err, pre, restarted, ai, vin>>

\* .sorted(key).sorted(key)
SortedAgainCall ==
    /\ pc = "sorted"
    /\ vout' = [op |-> "sorted", key |-> vout.key, first |-> vout.root,
                root |-> sorted(vout.root, vout.key)]
    /\ pc' = "sortedAgain"
    /\ UNCHANGED <<storeVars, root, ap, err, pre, restarted, ai, vin>>

GroupedByCall ==
    /\ pc = "Operations"
    /\ \E grouper \in Groupers, groupType \in GroupTypes :
          vout' = [op |-> "groupedBy", grouper |-> grouper, groupType |-> groupType,
                   root |-> groupedBy(vin.root, grouper, groupType)]
    /\ pc' = "groupedBy"
    /\ UNCHANGED <<storeVars, root, ap, err, pre, restarted, ai, vin>>

OpsNext == FlattedCall \/ SortedCall \/ SortedAgainCall \/ GroupedByCall

SpecOps == OpsInit /\ [][OpsNext]_vars

-----------------------------------------------------------------------------
(* Claims *)

NoDuplicates(s) == \A i, j \in 1..Len(s) : s[i] = s[j] => i = j

\* C1: verifyRoot(R, tree) returns without raising if and only if no name occurs
\* more than once among the tree's apps and their name set equals that of R.
C1_VerifierSound ==
    pc = "verified" =>
        LET c == AppNames(collectApps(vin.root))
            r == AppNames(vin.oldApps)
        IN  (vout = NoErr) <=> (NoDuplicates(c) /\ Range(c) = Range(r))

\* getLayoutResult has ended by throwing (not by returning)
AiRaised ==
    /\ pc = "failed"
    /\ "failures" \in DOMAIN ai
    /\ err.kind = "Error"
    /\ err.msg \in {"app not found", "TypeError"}

\* C4: getLayoutResult sends at most 3 requests, and when each of the 3
\* responses has failed (parse, decode or verify) it returns null, not raising.
C4_ThreeFailuresReturnNull ==
    /\ "requests" \in DOMAIN ai => ai.requests <= RetryLimit
    /\ ("failures" \in DOMAIN ai /\ ai.failures = RetryLimit) => ~AiRaised

\* C5: a response that is valid JSON but names an app the reference index lacks
\* does not abort getLayoutResult: the failure is caught and another attempt made.
C5_NameNotFoundRetried ==
    ~(pc = "failed" /\ err.kind = "Error" /\ err.msg = "app not found")

\* C6: a tree returned by getLayoutResult holds every app name of the reference
\* tree exactly once and no other app name.
C6_ResultHasReferenceApps ==
    (pc = "layoutWithAI" /\ ai.newRoot # NullRoot) =>
        LET c == AppNames(collectApps(ai.newRoot))
            r == AppNames(collectApps(getRoot(getDB(Store))))
        IN  /\ NoDuplicates(c)
            /\ Range(c) = Range(r)

\* getLayoutResult has returned a tree that holds a folder, after a failed attempt
C6_Witness ==
    /\ pc = "layoutWithAI"
    /\ ai.newRoot # NullRoot
    /\ ai.failures > 0
    /\ \E i \in 1..Len(ai.newRoot.children) :
          \E j \in 1..Len(ai.newRoot.children[i].children) :
              ai.newRoot.children[i].children[j].kind = "folder"

\* getLayoutResult has returned null after RetryLimit failed attempts
Exhausted ==
    /\ pc # "getLayoutResult"
    /\ "newRoot" \in DOMAIN ai
    /\ ai.newRoot = NullRoot
    /\ ai.retry >= RetryLimit

\* C7: in a run whose AI loop exhausts its retries no row of the store is
\* deleted, inserted or changed, and restartLaunchpad is never reached.
C7_ExhaustedWritesNothing ==
    Exhausted =>
        /\ Store = pre
        /\ ~restarted
        /\ pc \in {"layoutWithAI", "failed"}

\* the run has ended on the assertion of layoutWithAI
C7_Witness ==
    /\ Exhausted
    /\ pc = "failed"
    /\ err.msg = "assert"

RECURSIVE NodeIds(_)
\* the ids of the nodes below the root, in walking order
NodeIds(cs) ==
    IF cs = <<>> THEN <<>>
    ELSE <<Head(cs).id>>
         \o (IF itemIsGroup(Head(cs)) THEN NodeIds(Head(cs).children) ELSE <<>>)
         \o NodeIds(Tail(cs))

\* C2: every item row and every group row whose identity is at most
\* lastSystemItemId exists at every point of applyRoot, and after it, with the
\* parent, ordering and title it had before the call.
C2_SystemRowsKept ==
    /\ \A r \in DOMAIN pre.items :
          r <= lastSystemItemId(pre.items) =>
              /\ r \in DOMAIN items
              /\ items[r].parent_id = pre.items[r].parent_id
              /\ items[r].ordering = pre.items[r].ordering
    /\ \A r \in DOMAIN pre.groups :
          r <= lastSystemItemId(pre.items) =>
              /\ r \in DOMAIN groups
              /\ groups[r].title = pre.groups[r].title

\* applyRoot has run to its end on a tree that holds a folder carrying the
\* identity of the system boundary
C2_Witness ==
    /\ pc = "done"
    /\ \E i \in 1..Len(root.children) :
          \E j \in 1..Len(root.children[i].children) :
              /\ root.children[i].children[j].kind = "folder"
              /\ root.children[i].children[j].id = ap.lastSystemItemId

\* the identities of the rows applyRoot creates, in the order it creates them
CreatedIds ==
    LET made == SelectSeq(ap.updateItems, LAMBDA e : ~e.ref)
    IN  [i \in 1..Len(made) |-> made[i].rowid]

\* C3: the identities of the item rows one applyRoot call creates are pairwise
\* distinct, held by no row of the store before the call, and each greater than
\* the highest item identity present before the call.
C3_CreatedIdsFresh ==
    pc = "delete_items" =>
        /\ NoDuplicates(CreatedIds)
        /\ \A id \in Range(CreatedIds) :
              /\ id \notin DOMAIN pre.items
              /\ id > Max(DOMAIN pre.items)

\* C8: applyRoot verifies the tree against the apps of the store's tree before
\* it writes: a VerifyError leaves the store as it was, and the store differs
\* from its state at the call only for a tree that passes the verifier.
C8_VerifiedBeforeWrite ==
    /\ (pc = "failed" /\ err.kind = "VerifyError") => Store = pre
    /\ Store # pre =>
          verifyRoot(collectApps(getRoot(getDB(pre))), root) = NoErr

\* applyRoot has raised the VerifyError of a tree that repeats an app
C8_Witness ==
    /\ pc = "failed"
    /\ err.kind = "VerifyError"
    /\ err.check = "Duplicate"

\* every row of the write set is in the store and the copied tables are whole
RewriteComplete ==
    /\ ap # ApIdle
    /\ \A i \in 1..Len(ap.updateItems) :
          LET e == ap.updateItems[i]
          IN  e.rowid \in DOMAIN items /\ items[e.rowid] = ItemOf(e)
    /\ \A i \in 1..Len(ap.updateGroups) :
          LET e == ap.updateGroups[i]
          IN  e.item_id \in DOMAIN groups /\ groups[e.item_id] = GroupOf(e)
    /\ apps = ap.apps
    /\ imageCaches = ap.imageCaches
    /\ trigger = 0

\* C9: the rewrite is atomic: when a fault ends applyRoot, the store is entirely
\* in its state before the call or entirely in its state after the rewrite.
C9_RewriteAtomic ==
    pc = "failed" => (Store = pre \/ RewriteComplete)

TablesChange == <<items, groups, apps, imageCaches>>' # <<items, groups, apps, imageCaches>>

\* C10: every deletion and insertion of the rewrite happens with the trigger
\* suppression flag set, and the flag is back to 0 when applyRoot has ended.
C10_TriggersSuppressed ==
    /\ [][TablesChange => (trigger = 1 /\ trigger' = 1)]_vars
    /\ [](pc \in {"restartLaunchpad", "done"} => trigger = 0)


\* the number of times x occurs in the sequence s
Count(s, x) == Cardinality({i \in 1..Len(s) : s[i] = x})

\* C18: when a name occurs more than once among the candidate's apps verifyRoot
\* raises the duplicate error, never the set-mismatch error, and the error lists
\* each name one time fewer than it occurs in the candidate.
C18_DuplicateReported ==
    pc = "verified" =>
        LET c == AppNames(collectApps(vin.root))
        IN  ~NoDuplicates(c) =>
                /\ vout.kind = "VerifyError"
                /\ vout.check = "Duplicate"
                /\ \A n \in Names :
                      Count(vout.names, n) =
                          IF Count(c, n) = 0 THEN 0 ELSE Count(c, n) - 1

\* verifyRoot has judged a candidate that holds one name three times and whose
\* size also differs from the reference's
C18_Witness ==
    /\ pc = "verified"
    /\ \E n \in Names : Count(AppNames(collectApps(vin.root)), n) = 3
    /\ Len(vin.oldApps) = 2
    /\ vout.kind = "VerifyError"


\* every folder of the tree has exactly one page
SinglePageFolders(tree) ==
    \A i \in 1..Len(tree.children) :
        \A j \in 1..Len(tree.children[i].children) :
            LET item == tree.children[i].children[j]
            IN  item.kind = "folder" => Len(item.children) = 1

\* C13: for a tree with pairwise distinct app names and only single-page
\* folders, tinyToRoot(collectApps(tree), toTinyRoot(tree)) succeeds and yields
\* a tree with the same multiset of app names.
C13_CodecRoundTrip ==
    (/\ pc = "decoded"
     /\ NoDuplicates(AppNames(collectApps(vin.root)))
     /\ SinglePageFolders(vin.root)) =>
        /\ ~IsError(vout.root)
        /\ \A n \in Names :
              Count(AppNames(collectApps(vout.root)), n) =
                  Count(AppNames(collectApps(vin.root)), n)

\* a tree with an app on its page and two apps in a single-page folder has been
\* encoded and decoded
C13_Witness ==
    /\ pc = "decoded"
    /\ NoDuplicates(AppNames(collectApps(vin.root)))
    /\ SinglePageFolders(vin.root)
    /\ Len(vin.root.children) = 1
    /\ Len(vin.root.children[1].children) = 2
    /\ vin.root.children[1].children[2].kind = "folder"
    /\ Len(vin.root.children[1].children[2].children[1].children) = 2

\* C16: in a tree produced by tinyToRoot every page, folder and app carries the
\* identity 0, whatever identities the apps of the index carry.
C16_DecodedIdsUnassigned ==
    (pc = "decoded" /\ ~IsError(vout.root)) =>
        \A id \in Range(NodeIds(vout.root.children)) : id = 0

\* C17: a folder of more than one page is encoded with the app names of its
\* first page, in order, and none of the names of its later pages.
C17_FirstPageOnly ==
    pc = "tinyToRoot" =>
        \A i \in 1..Len(vin.root.children) :
            \A j \in 1..Len(vin.root.children[i].children) :
                LET item == vin.root.children[i].children[j]
                IN  (item.kind = "folder" /\ Len(item.children) > 1) =>
                        vout.tiny[i][j].apps = AppNames(item.children[1].children)


RECURSIVE GroupNodes(_)
\* the page and folder nodes below the root, in walking order
GroupNodes(cs) ==
    IF cs = <<>> THEN <<>>
    ELSE (IF itemIsGroup(Head(cs))
          THEN <<Head(cs)>> \o GroupNodes(Head(cs).children)
          ELSE <<>>)
         \o GroupNodes(Tail(cs))

\* the children of the group node g are the rows of the store that the claim
\* names, in ascending ordering, each as the node kind of its type tag
ChildrenAsStored(db, g) ==
    LET ids == [i \in 1..Len(g.children) |-> g.children[i].id]
    IN  /\ NoDuplicates(ids)
        /\ Range(ids) = {r \in DOMAIN db.items :
                            /\ db.items[r].parent_id = g.id
                            /\ r > db.lastSystemItemId
                            /\ db.items[r].type \in
                                   {ItemType_App, ItemType_Page, ItemType_Folder}}
        /\ \A i \in 1..Len(ids) :
              /\ TypeOfKind(g.children[i].kind) = db.items[ids[i]].type
              /\ \A j \in i..Len(ids) :
                    db.items[ids[i]].ordering <= db.items[ids[j]].ordering

\* C20: in the tree getRoot builds, the children of every group node are the
\* item rows under that group with an identity above lastSystemItemId and type
\* App, Page or Folder, in ascending ordering; a row of another type raises no
\* error; no node but the root has an identity within the system range.
C20_ChildrenOfGetRoot ==
    LET db == getDB(Store)
        tree == getRoot(db)
    IN  IF IsError(tree) THEN tree.msg # "unknown item type"
        ELSE /\ ChildrenAsStored(db, tree)
             /\ \A i \in 1..Len(GroupNodes(tree.children)) :
                   ChildrenAsStored(db, GroupNodes(tree.children)[i])
             /\ \A id \in Range(NodeIds(tree.children)) : id > db.lastSystemItemId

\* applyRoot has called getRoot on a store that holds a folder and, under a page
\* of the tree, a managed row of another type
C20_Witness ==
    /\ pc = "delete_items"
    /\ ~IsError(getRoot(getDB(Store)))
    /\ \E r \in DOMAIN items :
          /\ items[r].type = 7
          /\ r > lastSystemItemId(items)
          /\ items[r].parent_id \in Range(NodeIds(getRoot(getDB(Store)).children))
    /\ \E r \in DOMAIN items :
          /\ items[r].type = ItemType_Folder
          /\ r \in Range(NodeIds(getRoot(getDB(Store)).children))


RECURSIVE DocOrder(_)
\* the apps below the nodes cs, depth first and left to right
DocOrder(cs) ==
    IF cs = <<>> THEN <<>>
    ELSE (IF Head(cs).kind = "app" THEN <<Head(cs)>> ELSE DocOrder(Head(cs).children))
         \o DocOrder(Tail(cs))

\* C11: flatted(t) has a root with exactly one page, whose children are the apps
\* of t in depth-first left-to-right order, and holds the same set of apps as t.
C11_FlattedOnePage ==
    pc = "flatted" =>
        /\ Len(vout.root.children) = 1
        /\ vout.root.children[1].kind = "group"
        /\ vout.root.children[1].name = NoTitle
        /\ vout.root.children[1].children = DocOrder(vin.root.children)
        /\ Range(DocOrder(vout.root.children)) = Range(DocOrder(vin.root.children))

\* a tree with an app on its page and two apps inside a folder has been flattened
C11_Witness ==
    /\ pc = "flatted"
    /\ Len(vin.root.children) = 1
    /\ Len(vin.root.children[1].children) = 2
    /\ vin.root.children[1].children[2].kind = "group"
    /\ Len(DocOrder(vin.root.children)) = 3
    /\ Len(vout.root.children[1].children) = 3

\* C12: sorting a sorted tree changes nothing: every node of sorted(sorted(t))
\* has its children in the order they have in sorted(t).
C12_SortedIdempotent ==
    pc = "sortedAgain" => vout.root = vout.first

\* a page whose first sort moved its children, two of which have equal keys, has
\* been sorted twice
C12_Witness ==
    /\ pc = "sortedAgain"
    /\ Len(vin.root.children) = 1
    /\ vin.root.children[1].children = <<App(4, "B"), App(6, "A"), App(5, "A")>>
    /\ vout.first # vin.root


\* the buckets of a groupedBy result: the folders of its one page, or its pages
Buckets(out, groupType) ==
    IF groupType = "folder" THEN out.children[1].children ELSE out.children

\* the keys of the apps of a tree, in document order
KeysSeen(tree, grouper) ==
    LET a == DocOrder(tree.children)
    IN  [i \in 1..Len(a) |-> grouper[a[i].id]]

\* C14: the buckets of groupedBy come in the order in which their keys are first
\* met while scanning the apps in document order, and the apps of each bucket
\* keep their document order.
C14_BucketsInFirstSeenOrder ==
    pc = "groupedBy" =>
        LET b == Buckets(vout.root, vout.groupType)
            seen == Dedup(KeysSeen(vin.root, vout.grouper))
        IN  /\ [i \in 1..Len(b) |-> b[i].name] = seen
            /\ \A i \in 1..Len(b) :
                  b[i].children =
                      SelectSeq(DocOrder(vin.root.children),
                                LAMBDA a : vout.grouper[a.id] = b[i].name)

\* C15: groupedBy partitions the apps: each app is in exactly one bucket, the
\* one named by its key; in folder mode the root has one page holding one
\* folder per distinct key, in page mode the root has one page per distinct key.
C15_GroupedByPartitions ==
    pc = "groupedBy" =>
        LET b == Buckets(vout.root, vout.groupType)
            names == [i \in 1..Len(b) |-> b[i].name]
            inputApps == DocOrder(vin.root.children)
        IN  /\ vout.groupType = "folder" =>
                  /\ Len(vout.root.children) = 1
                  /\ vout.root.children[1].name = NoTitle
            /\ NoDuplicates(names)
            /\ Range(names) = Range(KeysSeen(vin.root, vout.grouper))
            /\ \A i \in 1..Len(b) :
                  /\ b[i].kind = "group"
                  /\ \A j \in 1..Len(b[i].children) :
                        /\ b[i].children[j].kind = "app"
                        /\ vout.grouper[b[i].children[j].id] = b[i].name
            /\ \A a \in OpsApps :
                  Count(DocOrder(b), a) = Count(inputApps, a)

\* one page with three apps of three different keys has been grouped in folder
\* mode into three folders of one app each
C15_Witness ==
    /\ pc = "groupedBy"
    /\ vout.groupType = "folder"
    /\ Len(vin.root.children) = 1
    /\ Len(vin.root.children[1].children) = 3
    /\ Len(vout.root.children[1].children) = 3
    /\ \A i \in 1..3 : Len(vout.root.children[1].children[i].children) = 1

RECURSIVE OpsGroupNodes(_)
\* the group nodes below the root of a tree of Operations
OpsGroupNodes(cs) ==
    IF cs = <<>> THEN <<>>
    ELSE (IF Head(cs).kind = "group"
          THEN <<Head(cs)>> \o OpsGroupNodes(Head(cs).children)
          ELSE <<>>)
         \o OpsGroupNodes(Tail(cs))

\* the children cs are in the order of the comparator
OrderedBy(key, cs) ==
    \A i \in 1..Len(cs) : \A j \in i..Len(cs) : Compare(key, cs[i], cs[j]) <= 0

\* C19: sorted(key) with a comparator supplied orders the children of the root
\* and of every page and folder by that comparator.
C19_SortedByGivenComparator ==
    (pc = "sorted" /\ vout.key # "none") =>
        /\ OrderedBy(vout.key, vout.root.children)
        /\ \A i \in 1..Len(OpsGroupNodes(vout.root.children)) :
              OrderedBy(vout.key, OpsGroupNodes(vout.root.children)[i].children)


\* C21: the conversation of one getLayoutResult call is append-only: it opens
\* with the tree encoded once; a further attempt is made with the earlier
\* messages unchanged, followed by the response of the failed attempt and one
\* corrective user message, the JSON reminder after a parse failure and the
\* verifier's error after a verify failure.
C21_ConversationAppendOnly ==
    /\ [][(pc = "getLayoutResult" /\ pc' = "getLayoutResult") =>
            LET m == ai.messages
                n == ai'.messages
                said == n[Len(m) + 1]
                told == n[Len(m) + 2]
                refApps == collectApps(ai.root)
            IN  /\ Len(n) = Len(m) + 2
                /\ SubSeq(n, 1, Len(m)) = m
                /\ said.role = "assistant"
                /\ told.role = "user"
                /\ ai'.root = ai.root
                /\ IF said.content.json = "invalid"
                   THEN told.content.kind = "SyntaxError"
                   ELSE /\ said.content.json = "tiny"
                        /\ told.content.kind = "VerifyError"
                        /\ told.content =
                              verifyRoot(refApps, tinyToRoot(refApps, said.content.value))]_vars
    /\ [](pc = "getLayoutResult" =>
            /\ Len(ai.messages) = 2 + 2 * ai.retry
            /\ ai.messages[1] = Message("system", [input |-> toTinyRoot(ai.root)])
            /\ ai.messages[2].role = "user")

\* a third attempt is about to be made after a parse failure and a verify failure
C21_Witness ==
    /\ pc = "getLayoutResult"
    /\ Len(ai.messages) = 6
    /\ ai.messages[4].content.kind = "SyntaxError"
    /\ ai.messages[6].content.kind = "VerifyError"


RECURSIVE NodesUnder(_, _)
\* the nodes below the node whose id is parentId, each with the id of its parent
NodesUnder(cs, parentId) ==
    IF cs = <<>> THEN <<>>
    ELSE <<[kind |-> Head(cs).kind, id |-> Head(cs).id, parent |-> parentId]>>
         \o (IF itemIsGroup(Head(cs))
             THEN NodesUnder(Head(cs).children, Head(cs).id)
             ELSE <<>>)
         \o NodesUnder(Tail(cs), parentId)

\* the type tag the claims expect of a row for a node of this kind
TypeTagOf(kind) ==
    CASE kind = "app" -> ItemType_App
      [] kind = "page" -> ItemType_Page
      [] kind = "folder" -> ItemType_Folder

\* applyRoot has returned
ApplyCompleted == pc \in {"restartLaunchpad", "done"}

\* C22: after applyRoot has completed, the item rows above lastSystemItemId are
\* exactly one row per node of the tree below the root, each with the parent_id
\* of the node's parent and the type of the node's kind; a managed row of the
\* store before the call that is no node of the tree is gone.
C22_RowsMatchTree ==
    ApplyCompleted =>
        LET nodes == NodesUnder(root.children, root.id)
            ids == [i \in 1..Len(nodes) |-> nodes[i].id]
            managed == {r \in DOMAIN items : r > ap.lastSystemItemId}
        IN  /\ NoDuplicates(ids)
            /\ Range(ids) = managed
            /\ \A i \in 1..Len(nodes) :
                  /\ nodes[i].id \in DOMAIN items
                  /\ items[nodes[i].id].parent_id = nodes[i].parent
                  /\ items[nodes[i].id].type = TypeTagOf(nodes[i].kind)
            /\ \A r \in DOMAIN pre.items :
                  (r > ap.lastSystemItemId /\ r \notin Range(ids)) =>
                      r \notin DOMAIN items

\* no node of the tree carries an identity of the system range, and a node that
\* carries the identity of a row of the store before the call is of that row's type
TreeFitsStore ==
    \A i \in 1..Len(NodesUnder(root.children, root.id)) :
        LET n == NodesUnder(root.children, root.id)[i]
        IN  /\ n.id > lastSystemItemId(pre.items)
            /\ n.id \in DOMAIN pre.items => pre.items[n.id].type = TypeTagOf(n.kind)

\* C22 (amended): for a tree none of whose nodes carries an identity of the
\* system range or the identity of a row of another type, the item rows above
\* lastSystemItemId after applyRoot are exactly one row per node below the
\* root, with the parent_id of the node's parent and the type of its kind, and
\* a managed row of the store before the call that is no node is gone.
C22_RowsMatchFittingTree ==
    (ApplyCompleted /\ TreeFitsStore) =>
        LET nodes == NodesUnder(root.children, root.id)
            ids == [i \in 1..Len(nodes) |-> nodes[i].id]
            managed == {r \in DOMAIN items : r > ap.lastSystemItemId}
        IN  /\ NoDuplicates(ids)
            /\ Range(ids) = managed
            /\ \A i \in 1..Len(nodes) :
                  /\ nodes[i].id \in DOMAIN items
                  /\ items[nodes[i].id].parent_id = nodes[i].parent
                  /\ items[nodes[i].id].type = TypeTagOf(nodes[i].kind)
            /\ \A r \in DOMAIN pre.items :
                  (r > ap.lastSystemItemId /\ r \notin Range(ids)) =>
                      r \notin DOMAIN items

\* applyRoot has completed on a tree with a created folder, and a row of
\* another type that the store held before the call is gone
C22_Witness ==
    /\ ApplyCompleted
    /\ TreeFitsStore
    /\ \E r \in DOMAIN pre.items : pre.items[r].type = 7 /\ r \notin DOMAIN items
    /\ \E i \in 1..Len(NodesUnder(root.children, root.id)) :
          LET n == NodesUnder(root.children, root.id)[i]
          IN  n.kind = "folder" /\ n.id \notin DOMAIN pre.items

RECURSIVE Shape(_)
\* a node without its identities: its variant, its name and its children in order
Shape(node) ==
    IF node.kind = "app" THEN [kind |-> "app", name |-> node.name]
    ELSE LET cs == [i \in 1..Len(node.children) |-> Shape(node.children[i])]
         IN  IF node.kind = "folder"
             THEN [kind |-> "folder", name |-> node.name, children |-> cs]
             ELSE [kind |-> "page", children |-> cs]

\* C23: applyRoot(t) followed by getRoot is a round trip: once applyRoot has
\* completed, getRoot on the rewritten store does not fail and builds a tree of
\* the shape of t (variants, names and child order at every node), and the
\* orderings written for the nodes of one parent are pairwise distinct, those
\* under the root starting at 1.
C23_ApplyThenGetRoot ==
    ApplyCompleted =>
        LET back == getRoot(getDB(Store))
            nodes == NodesUnder(root.children, root.id)
        IN  /\ ~IsError(back)
            /\ Shape(back) = Shape(root)
            /\ \A i \in 1..Len(nodes) :
                  /\ nodes[i].id \in DOMAIN items
                  /\ nodes[i].parent = 1 => items[nodes[i].id].ordering >= 1
                  /\ \A j \in 1..Len(nodes) :
                        (j # i /\ nodes[j].parent = nodes[i].parent
                              /\ nodes[j].id \in DOMAIN items) =>
                            items[nodes[j].id].ordering # items[nodes[i].id].ordering

====
